---- MODULE Spec2Model ----
(***************************************************************************)
(* Model of uat::simulate (src/src/simulation.cpp): the per-tick auction   *)
(* loop over the permit ledger.  One action per callback invocation made   *)
(* by an agent (bid, ask, status), per loop iteration of the driver        *)
(* (settlement) and per driver step between the agents' turns.             *)
(***************************************************************************)
EXTENDS Integers, Sequences, FiniteSets, TLC

\* ---------------------------------------------------------------- bounds
MaxAgents == 2      \* agents the factory creates over a run
MaxTick == 1        \* ticks 0..MaxTick are run
MaxTime == 1        \* permit times agents and telemetry name: 0..MaxTime
MaxValue == 2       \* bid and ask values: 0..MaxValue
MaxCalls == 4       \* callback calls made over a run, by all agents and the telemetry
MaxWindow == 0      \* configured time windows: 0..MaxWindow

Regions == {"r"}
Times == 0..MaxTime
Values == 0..MaxValue
Keys == Regions \X Times

\* ------------------------------------------------------- permit statuses
no_owner == 0 - 1

out_of_limits == [kind |-> "out_of_limits"]
used(o) == [kind |-> "used", owner |-> o]
onsale(o, m, hb, hv) ==
  [kind |-> "onsale", owner |-> o, min_value |-> m, highest_bidder |-> hb, highest_bid |-> hv]

\* private_status{}: the value std::unordered_map::operator[] inserts
default_status == onsale(no_owner, 0, no_owner, 0)

unavailable == [kind |-> "unavailable", min_value |-> 0]
owned == [kind |-> "owned", min_value |-> 0]
available(m) == [kind |-> "available", min_value |-> m]
no_status == [kind |-> "none", min_value |-> 0]

\* ----------------------------------------------------------------- state
VARIABLES
  opts,         \* simulation_opts_t: time_window, stop_criteria, the two callbacks
  t0,           \* the clock
  data,         \* the deque of per-tick maps, key -> private_status
  nagents,      \* agents.size()
  active, keep_active, to_finished,
  bids,         \* the keys first bid on in this tick
  asks,         \* the asks recorded in this tick
  pc,           \* where simulate() is
  i,            \* position of the loops over active
  j,            \* position of the settlement loop over bids
  ncalls,       \* callback calls made so far in the run
  call,         \* the last callback call: arguments, status looked up, result
  subm,         \* history: the bids of this tick that exceeded min_value of an onsale entry
  polled,       \* history: the agents act told to finish, each with the tick
  listed,       \* history: the asks recorded in the tick before, kept until the bid phase acts
  trades,       \* history: records handed to opts.trade_callback in this tick
  notes,        \* history: on_bought / on_sold deliveries of this tick
  finished      \* history: on_finished deliveries of the run

vars == <<opts, t0, data, nagents, active, keep_active, to_finished, bids, asks, pc, i, j,
          ncalls, call, subm, polled, listed, trades, notes, finished>>

no_call ==
  [op |-> "none", id |-> no_owner, s |-> "r", t |-> 0, v |-> 0,
   pre |-> no_status, ret |-> FALSE, pub |-> no_status]

EmptyMap == [k \in {} |-> out_of_limits]

Range(q) == {q[k] : k \in DOMAIN q}

\* ---------------------------------------------------------------- ledger
\* mutant: the last time of the window is out of limits
in_window_lt(t) == opts.time_window = <<>> \/ t < t0 + opts.time_window[1]

\* mutant: one more time is within the window
in_window_wide(t) == opts.time_window = <<>> \/ t <= t0 + opts.time_window[1] + 1

\* opts.time_window is an optional: <<>> or <<W>>
in_window(t) == opts.time_window = <<>> \/ t <= t0 + opts.time_window[1]

RECURSIVE extend(_, _)
extend(d, n) == IF Len(d) >= n THEN d ELSE extend(Append(d, EmptyMap), n)

\* book(slot, t), for t >= t0: the deque after the call
book_data(d, s, t) ==
  IF ~in_window(t) THEN d
  ELSE LET e == extend(d, t - t0 + 1)
           k == <<s, t>>
       IN [e EXCEPT ![t - t0 + 1] = IF k \in DOMAIN @ THEN @ ELSE (k :> default_status) @@ @]

\* book(slot, t), for t >= t0: the status the returned reference names
book_status(d, s, t) ==
  IF ~in_window(t) THEN out_of_limits ELSE book_data(d, s, t)[t - t0 + 1][<<s, t>>]

\* book(slot, t) = status
book_write(d, s, t, status) ==
  IF ~in_window(t) THEN d
  ELSE [book_data(d, s, t) EXCEPT ![t - t0 + 1] = [@ EXCEPT ![<<s, t>>] = status]]

\* mutant: an agent sees its own listing as owned
public_access_own(id, status) ==
  CASE status.kind = "out_of_limits" -> unavailable
    [] status.kind = "used" -> IF status.owner = id THEN owned ELSE unavailable
    [] status.kind = "onsale" ->
         IF status.owner = id THEN owned ELSE available(status.min_value)

\* public_access(id)(s, t), given the status book returned
public_access(id, status) ==
  CASE status.kind = "out_of_limits" -> unavailable
    [] status.kind = "used" -> IF status.owner = id THEN owned ELSE unavailable
    [] status.kind = "onsale" ->
         IF status.owner = id THEN unavailable ELSE available(status.min_value)

\* mutant: the run ends once the clock has reached the threshold
stop_ge ==
  IF opts.stop_criteria.kind = "no_agents" THEN Len(active) = 0
  ELSE t0 >= opts.stop_criteria.t

\* stop()
stop ==
  IF opts.stop_criteria.kind = "no_agents" THEN Len(active) = 0
  ELSE t0 > opts.stop_criteria.t

\* ------------------------------------------------------------------ init
OptsSet ==
  [time_window : {<<>>} \cup {<<w>> : w \in 0..MaxWindow},
   stop_criteria : {[kind |-> "no_agents", t |-> 0]}
                     \cup {[kind |-> "time_threshold", t |-> th] : th \in 0..MaxTick},
   status_callback : {TRUE},
   trade_callback : {TRUE}]

Init ==
  /\ opts \in OptsSet
  /\ t0 = 0
  /\ data = <<>>
  /\ nagents = 0
  /\ active = <<>> /\ keep_active = <<>> /\ to_finished = <<>>
  /\ bids = <<>> /\ asks = <<>>
  /\ pc = "telemetry"
  /\ i = 1 /\ j = 1 /\ ncalls = 0
  /\ call = no_call
  /\ subm = <<>> /\ polled = EmptyMap /\ listed = <<>>
  /\ trades = <<>> /\ notes = <<>> /\ finished = <<>>


\* -------------------------------------------------------------- outcomes
\* the process ends abnormally: a failed assert, std::bad_variant_access, or
\* the outcome of undefined behaviour
abort == pc' = "aborted"

\* ------------------------------------------------------- phase 0 and 1
\* opts.status_callback reads the ledger through the view [&book]
TelemetryLookup(s, t) ==
  /\ pc = "telemetry" /\ opts.status_callback /\ t0 <= MaxTick /\ ncalls < MaxCalls
  /\ IF t < t0
     THEN abort /\ UNCHANGED <<data, call, ncalls>>
     ELSE /\ data' = book_data(data, s, t)
          /\ call' = [no_call EXCEPT !.op = "view", !.s = s, !.t = t,
                                     !.pre = book_status(data, s, t)]
          /\ ncalls' = ncalls + 1
          /\ UNCHANGED pc
  /\ UNCHANGED <<opts, t0, nagents, active, keep_active, to_finished, bids, asks, i, j,
                 subm, polled, listed, trades, notes, finished>>

\* factory(t0, space, rnd()) returns n agents; the tick's lists are cleared
Ingest(n) ==
  /\ pc = "telemetry" /\ t0 <= MaxTick
  /\ nagents + n <= MaxAgents
  /\ nagents' = nagents + n
  /\ active' = active \o [k \in 1..n |-> nagents + k - 1]
  /\ keep_active' = <<>> /\ to_finished' = <<>>
  /\ bids' = <<>>
  /\ pc' = "bid" /\ i' = 1 /\ j' = 1
  /\ call' = no_call
  /\ UNCHANGED <<opts, t0, data, asks, ncalls, subm, polled, listed, trades, notes, finished>>

\* ---------------------------------------------------------- phase 2: bid
\* mutant: a bid equal to the standing highest bid is accepted
bid_accepts_ge(status, v) == v > status.min_value /\ v >= status.highest_bid

\* mutant: the bid is not compared with min_value
bid_accepts_any(status, v) == v > status.highest_bid

\* the test of the onsale branch of the bid callback
bid_accepts(status, v) == v > status.min_value /\ v > status.highest_bid

\* what the bid callback returns, given the status book returned
bid_return(t, status) ==
  IF t < t0 THEN FALSE
  ELSE CASE status.kind = "out_of_limits" -> FALSE
         [] status.kind = "used" -> FALSE
         [] status.kind = "onsale" -> TRUE

\* mutant: every accepted bid is pushed to bids
bid_is_first_always(status) == TRUE

\* whether the accepted bid is pushed to bids
bid_is_first(status) == status.highest_bidder = no_owner

\* mutant: the key is put in front of bids
push_bid_front(q, k) == <<k>> \o q

\* bids.emplace_back(s, t)
push_bid(q, k) == Append(q, k)

\* mutant: the bidder is written as the owner too
bid_update_owner(status, id, v) ==
  [status EXCEPT !.owner = id, !.highest_bidder = id, !.highest_bid = v]

\* the onsale entry after an accepted bid
bid_update(status, id, v) == [status EXCEPT !.highest_bidder = id, !.highest_bid = v]

\* agents[active[i]].act(...) calls the bid callback
Bid(s, t, v) ==
  /\ pc = "bid" /\ i <= Len(active) /\ ncalls < MaxCalls
  /\ LET id == active[i]
         looked == t >= t0
         status == IF looked THEN book_status(data, s, t) ELSE no_status
         hit == looked /\ status.kind = "onsale" /\ bid_accepts(status, v)
         k == <<s, t>>
     IN /\ data' = IF ~looked THEN data
                   ELSE IF hit THEN book_write(data, s, t, bid_update(status, id, v))
                   ELSE book_data(data, s, t)
        /\ bids' = IF hit /\ bid_is_first(status) THEN push_bid(bids, k) ELSE bids
        /\ call' = [no_call EXCEPT !.op = "bid", !.id = id, !.s = s, !.t = t, !.v = v,
                                   !.pre = status, !.ret = bid_return(t, status)]
        /\ subm' = IF looked /\ status.kind = "onsale" /\ v > status.min_value
                   THEN Append(subm, [id |-> id, k |-> k, v |-> v, acc |-> hit]) ELSE subm
  /\ ncalls' = ncalls + 1
  /\ listed' = <<>>
  /\ UNCHANGED <<opts, t0, nagents, active, keep_active, to_finished, asks, pc, i, j,
                 polled, trades, notes, finished>>

\* an agent calls its status callback, public_access(id), in either phase
Status(s, t) ==
  /\ pc \in {"bid", "ask"} /\ i <= Len(active) /\ ncalls < MaxCalls
  /\ IF t < t0
     THEN abort /\ UNCHANGED <<data, call, ncalls>>
     ELSE /\ data' = book_data(data, s, t)
          /\ call' = [no_call EXCEPT !.op = "status", !.id = active[i], !.s = s, !.t = t,
                                     !.pre = book_status(data, s, t),
                                     !.pub = public_access(active[i], book_status(data, s, t))]
          /\ ncalls' = ncalls + 1
          /\ UNCHANGED pc
  /\ listed' = <<>>
  /\ UNCHANGED <<opts, t0, nagents, active, keep_active, to_finished, bids, asks, i, j,
                 subm, polled, trades, notes, finished>>

\* agent::act: the bid phase, then the stop poll; its result is whether the
\* agent stays
act_result(stopped) == ~stopped

\* the list the agent is pushed to when act has returned r
push_keep(q, id, r) == IF r THEN Append(q, id) ELSE q
push_finished(q, id, r) == IF r THEN q ELSE Append(q, id)

\* act returns: the agent is kept or is to be finished
ActReturn(stopped) ==
  /\ pc = "bid" /\ i <= Len(active)
  /\ keep_active' = push_keep(keep_active, active[i], act_result(stopped))
  /\ to_finished' = push_finished(to_finished, active[i], act_result(stopped))
  /\ polled' = IF stopped THEN (active[i] :> t0) @@ polled ELSE polled
  /\ i' = i + 1
  /\ call' = no_call
  /\ listed' = <<>>
  /\ UNCHANGED <<opts, t0, data, nagents, active, bids, asks, pc, j, ncalls, subm,
                 trades, notes, finished>>

\* --------------------------------------------------- phase 3: settlement
trade_record(status, s, t) ==
  [tick |-> t0, seller |-> status.owner, buyer |-> status.highest_bidder,
   s |-> s, t |-> t, price |-> status.highest_bid]

\* mutant: on_sold is skipped for a seller that is no longer kept active
settle_notes_kept_only(status, s, t) ==
  <<[ev |-> "on_bought", id |-> status.highest_bidder, s |-> s, t |-> t, v |-> status.highest_bid]>>
  \o (IF status.owner # no_owner /\ status.owner \in Range(keep_active)
      THEN <<[ev |-> "on_sold", id |-> status.owner, s |-> s, t |-> t, v |-> status.highest_bid]>>
      ELSE <<>>)

\* mutant: on_sold is skipped when the seller is the buyer
settle_notes_no_self(status, s, t) ==
  <<[ev |-> "on_bought", id |-> status.highest_bidder, s |-> s, t |-> t, v |-> status.highest_bid]>>
  \o (IF status.owner # no_owner /\ status.owner # status.highest_bidder
      THEN <<[ev |-> "on_sold", id |-> status.owner, s |-> s, t |-> t, v |-> status.highest_bid]>>
      ELSE <<>>)

\* the notifications of one settled bid, in the order they are issued
settle_notes(status, s, t) ==
  <<[ev |-> "on_bought", id |-> status.highest_bidder, s |-> s, t |-> t, v |-> status.highest_bid]>>
  \o (IF status.owner # no_owner
      THEN <<[ev |-> "on_sold", id |-> status.owner, s |-> s, t |-> t, v |-> status.highest_bid]>>
      ELSE <<>>)

\* mutant: the permit stays with the seller
settle_status_seller(status) == used(status.owner)

\* the status written back for a settled bid
settle_status(status) == used(status.highest_bidder)

\* one iteration of the loop over bids
Settle ==
  /\ pc = "bid" /\ i > Len(active) /\ j <= Len(bids)
  /\ LET s == bids[j][1]
         t == bids[j][2]
         status == book_status(data, s, t)
     IN IF status.kind # "onsale"
        THEN abort /\ UNCHANGED <<data, trades, notes, j>>
        ELSE /\ trades' = IF opts.trade_callback
                          THEN Append(trades, trade_record(status, s, t)) ELSE trades
             /\ notes' = notes \o settle_notes(status, s, t)
             /\ data' = book_write(data, s, t, settle_status(status))
             /\ j' = j + 1
             /\ UNCHANGED pc
  /\ UNCHANGED <<opts, t0, nagents, active, keep_active, to_finished, bids, asks, i,
                 ncalls, call, subm, polled, listed, finished>>

\* the block of bids ends, the block of asks begins
EndAuction ==
  /\ pc = "bid" /\ i > Len(active) /\ j > Len(bids)
  /\ pc' = "ask" /\ i' = 1
  /\ bids' = <<>> /\ asks' = <<>>
  /\ subm' = <<>>
  /\ call' = no_call
  /\ listed' = <<>>
  /\ UNCHANGED <<opts, t0, data, nagents, active, keep_active, to_finished, j, ncalls,
                 polled, trades, notes, finished>>

\* ---------------------------------------------------------- phase 4: ask
\* mutant: the owner of a used entry is not compared with the asker
ask_return_any(t, status, id) ==
  IF t < t0 THEN FALSE
  ELSE CASE status.kind = "out_of_limits" -> FALSE
         [] status.kind = "onsale" -> FALSE
         [] status.kind = "used" -> TRUE

\* what the ask callback returns, given the status book returned
ask_return(t, status, id) ==
  IF t < t0 THEN FALSE
  ELSE CASE status.kind = "out_of_limits" -> FALSE
         [] status.kind = "onsale" -> FALSE
         [] status.kind = "used" -> status.owner = id

\* agents[active[i]].after_auction(...) calls the ask callback
Ask(s, t, v) ==
  /\ pc = "ask" /\ i <= Len(active) /\ ncalls < MaxCalls
  /\ LET id == active[i]
         looked == t >= t0
         status == IF looked THEN book_status(data, s, t) ELSE no_status
         r == ask_return(t, status, id)
     IN /\ data' = IF looked THEN book_data(data, s, t) ELSE data
        /\ asks' = IF r THEN Append(asks, <<s, t, id, v>>) ELSE asks
        /\ call' = [no_call EXCEPT !.op = "ask", !.id = id, !.s = s, !.t = t, !.v = v,
                                   !.pre = status, !.ret = r]
  /\ ncalls' = ncalls + 1
  /\ UNCHANGED <<opts, t0, nagents, active, keep_active, to_finished, bids, pc, i, j,
                 subm, polled, listed, trades, notes, finished>>

\* after_auction returns
AfterAuctionReturn ==
  /\ pc = "ask" /\ i <= Len(active)
  /\ i' = i + 1
  /\ call' = no_call
  /\ UNCHANGED <<opts, t0, data, nagents, active, keep_active, to_finished, bids, asks,
                 pc, j, ncalls, subm, polled, listed, trades, notes, finished>>

\* mutant: the reserve is not written
ask_status_no_reserve(id, v) == onsale(id, 0, no_owner, 0)

\* the status an ask writes
ask_status(id, v) == onsale(id, v, no_owner, 0)

\* mutant: of the asks on one key, the first one stands
RECURSIVE apply_asks_first(_, _)
apply_asks_first(d, q) ==
  IF q = <<>> THEN d
  ELSE book_write(apply_asks_first(d, Tail(q)), Head(q)[1], Head(q)[2],
                  ask_status(Head(q)[3], Head(q)[4]))

RECURSIVE apply_asks(_, _)
apply_asks(d, q) ==
  IF q = <<>> THEN d
  ELSE apply_asks(book_write(d, Head(q)[1], Head(q)[2], ask_status(Head(q)[3], Head(q)[4])),
                  Tail(q))

\* the loop over asks
ApplyAsks ==
  /\ pc = "ask" /\ i > Len(active)
  /\ data' = apply_asks(data, asks)
  /\ pc' = "retire"
  /\ UNCHANGED <<opts, t0, nagents, active, keep_active, to_finished, bids, asks, i, j,
                 ncalls, call, subm, polled, listed, trades, notes, finished>>

\* ------------------------------------------- phase 5 and 6, loop condition
\* on_finished for each id of to_finished, in order
finish_notes(q, t) == [k \in 1..Len(q) |-> [id |-> q[k], t |-> t]]

\* mutant: the lists are not swapped
swap_active_none(act, keep) == act

\* std::swap(active, keep_active): the new active list
swap_active(act, keep) == keep

\* mutant: the front bucket is not dropped
pop_front_none(d) == d

\* data.pop_front(); on an empty deque the call is undefined, and a run that
\* goes on after it goes on with the empty deque
pop_front(d) == IF d # <<>> THEN Tail(d) ELSE d

\* on_finished, swap, pop_front, ++t0, while (!stop()).  pop_front on an
\* empty deque is undefined: the process ends abnormally, or goes on with
\* an empty deque
Advance ==
  /\ pc = "retire"
  /\ finished' = finished \o finish_notes(to_finished, t0)
  /\ active' = swap_active(active, keep_active)
  /\ keep_active' = swap_active(keep_active, active)
  /\ data' = pop_front(data)
  /\ t0' = t0 + 1
  /\ UNCHANGED opts
  /\ pc' \in {IF stop' THEN "done" ELSE "telemetry"}
              \cup (IF data = <<>> THEN {"aborted"} ELSE {})
  /\ listed' = asks
  /\ asks' = <<>> /\ trades' = <<>> /\ notes' = <<>>
  /\ UNCHANGED <<nagents, to_finished, bids, i, j, ncalls, call, subm, polled>>

Next ==
  \/ \E s \in Regions, t \in Times : TelemetryLookup(s, t)
  \/ \E n \in 0..MaxAgents : Ingest(n)
  \/ \E s \in Regions, t \in Times, v \in Values : Bid(s, t, v)
  \/ \E s \in Regions, t \in Times : Status(s, t)
  \/ \E stopped \in BOOLEAN : ActReturn(stopped)
  \/ Settle
  \/ EndAuction
  \/ \E s \in Regions, t \in Times, v \in Values : Ask(s, t, v)
  \/ AfterAuctionReturn
  \/ ApplyAsks
  \/ Advance

Spec == Init /\ [][Next]_vars


\* ================================================================ claims
\* the ledger entry of an addressable key, as a lookup would return it
Entry(d, k) == book_status(d, k[1], k[2])

AuctionOver == pc = "bid" /\ i > Len(active)
SettlementOver == AuctionOver /\ j > Len(bids)

TradeKey(tr) == <<tr.s, tr.t>>

\* C1: the bid callback returns true if and only if the submission is
\* accepted: the time is not past, the entry is onsale, and the value exceeds
\* both min_value and highest_bid.
C1_BidTrueIffAccepted ==
  call.op = "bid" =>
    (call.ret <=> /\ call.t >= t0
                  /\ call.pre.kind = "onsale"
                  /\ call.v > call.pre.min_value
                  /\ call.v > call.pre.highest_bid)

\* C2: each settlement step turns the key it settles into used, owned by the
\* highest_bidder its onsale entry held when the bid phase ended, and hands
\* the trade callback the record {t0, owner, highest_bidder, key, highest_bid};
\* the keys settled before stay so and the keys still to settle are untouched,
\* so after the last step every key of bids is used by its buyer.
C2_SettleStep ==
  (AuctionOver /\ j <= Len(bids) /\ j' = j + 1) =>
    LET k == bids[j]
        st == Entry(data, k)
    IN /\ st.kind = "onsale" /\ st.highest_bidder # no_owner
       /\ trades' = Append(trades, [tick |-> t0, seller |-> st.owner,
                                    buyer |-> st.highest_bidder, s |-> k[1], t |-> k[2],
                                    price |-> st.highest_bid])
       /\ \A n \in 1..j : Entry(data', bids[n]) = used(trades'[n].buyer)
       /\ \A n \in (j + 1)..Len(bids) : Entry(data', bids[n]) = Entry(data, bids[n])

C2_Settlement == [][C2_SettleStep]_vars

\* a resold permit has been settled: every key of bids is used by its buyer
C2_Witness ==
  /\ SettlementOver /\ Len(bids) >= 1 /\ Len(trades) = Len(bids)
  /\ trades[1].seller # no_owner /\ trades[1].seller # trades[1].buyer
  /\ Entry(data, bids[1]) = used(trades[1].buyer)

\* the bids submitted on a key in this tick that exceeded its min_value
SubmOn(k) == {n \in DOMAIN subm : subm[n].k = k}
MaxBid(k) == CHOOSE v \in {subm[n].v : n \in SubmOn(k)} : \A n \in SubmOn(k) : subm[n].v <= v
FirstWith(k, v) ==
  subm[CHOOSE n \in SubmOn(k) : subm[n].v = v /\ \A m \in SubmOn(k) : subm[m].v = v => n <= m].id
TradesOn(k) == {n \in DOMAIN trades : TradeKey(trades[n]) = k}

\* C3: when settlement is over, each key that received a bid above its
\* min_value in the tick has exactly one trade; its price is the largest such
\* bid and its buyer the agent that first submitted that value; no other key
\* has a trade.
C3_OneTradeAtMaxFirst ==
  SettlementOver =>
    /\ \A n \in DOMAIN subm :
         LET k == subm[n].k
         IN /\ Cardinality(TradesOn(k)) = 1
            /\ \A m \in TradesOn(k) : /\ trades[m].price = MaxBid(k)
                                      /\ trades[m].buyer = FirstWith(k, MaxBid(k))
    /\ \A m \in DOMAIN trades : SubmOn(TradeKey(trades[m])) # {}

\* a key was settled on which a later agent submitted the standing highest bid again
C3_Witness ==
  /\ SettlementOver
  /\ \E m, n \in DOMAIN subm :
       /\ m < n /\ subm[m].k = subm[n].k /\ subm[m].id # subm[n].id
       /\ subm[m].v = subm[n].v /\ subm[m].v = MaxBid(subm[m].k)
       /\ \E x \in TradesOn(subm[m].k) : trades[x].buyer = subm[m].id

\* the keys of q in the order of their first accepted bid
RECURSIVE FirstOrder(_, _)
FirstOrder(q, out) ==
  IF q = <<>> THEN out
  ELSE FirstOrder(Tail(q), IF Head(q).acc /\ Head(q).k \notin Range(out)
                           THEN Append(out, Head(q).k) ELSE out)

IsBought(e) == e.ev = "on_bought"
IsSold(e) == e.ev = "on_sold"
HasSeller(tr) == tr.seller # no_owner
NoteKeys(q) == [n \in DOMAIN q |-> <<q[n].s, q[n].t>>]
TradeKeys(q) == [n \in DOMAIN q |-> TradeKey(q[n])]

\* C4: the trades of a tick, and the on_bought and on_sold notifications, come
\* in the order in which the keys received their first accepted bid.
C4_SettlementOrder ==
  pc = "bid" =>
    LET fo == FirstOrder(subm, <<>>)
    IN /\ Len(trades) <= Len(fo)
       /\ \A n \in DOMAIN trades : TradeKey(trades[n]) = fo[n]
       /\ SettlementOver => Len(trades) = Len(fo)
       /\ NoteKeys(SelectSeq(notes, IsBought)) = TradeKeys(trades)
       /\ NoteKeys(SelectSeq(notes, IsSold)) = TradeKeys(SelectSeq(trades, HasSeller))

\* two keys were settled, and the first of them was bid on again after the
\* second had received its first bid
C4_Witness ==
  /\ SettlementOver /\ Len(trades) = 2
  /\ \E m, n, p \in DOMAIN subm :
       /\ m < n /\ n < p /\ subm[m].k = subm[p].k /\ subm[m].k # subm[n].k
       /\ subm[p].acc
       /\ TradeKey(trades[1]) = subm[m].k /\ TradeKey(trades[2]) = subm[n].k

\* the notifications the trades q call for
RECURSIVE ExpectedNotes(_)
ExpectedNotes(q) ==
  IF q = <<>> THEN <<>>
  ELSE <<[ev |-> "on_bought", id |-> Head(q).buyer, s |-> Head(q).s, t |-> Head(q).t,
          v |-> Head(q).price]>>
       \o (IF Head(q).seller # no_owner
           THEN <<[ev |-> "on_sold", id |-> Head(q).seller, s |-> Head(q).s, t |-> Head(q).t,
                   v |-> Head(q).price]>>
           ELSE <<>>)
       \o ExpectedNotes(Tail(q))

\* C5: each settled trade delivers on_bought to the buyer with the price, and
\* on_sold with the same price to the seller exactly when the seller is not
\* no_owner, whether or not the seller is still active.
C5_Notifications == notes = ExpectedNotes(trades)

\* on_sold reached a seller that act had told to finish in this very tick
C5_Witness ==
  \E n \in DOMAIN trades, m \in DOMAIN notes :
    /\ trades[n].seller # no_owner
    /\ trades[n].seller \in Range(to_finished)
    /\ trades[n].seller # trades[n].buyer
    /\ notes[m] = [ev |-> "on_sold", id |-> trades[n].seller, s |-> trades[n].s,
                   t |-> trades[n].t, v |-> trades[n].price]


FinishedIds == {finished[n].id : n \in DOMAIN finished}

\* C6: on_finished reaches an agent at most once, with its id and the tick in
\* which its stop poll returned true; once that tick is over the agent is not
\* in active again, and the agents never told to stop are all in active.
C6_Retirement ==
  /\ \A m, n \in DOMAIN finished : finished[m].id = finished[n].id => m = n
  /\ \A n \in DOMAIN finished :
       /\ finished[n].id \in DOMAIN polled
       /\ finished[n].t = polled[finished[n].id]
       /\ finished[n].t < t0
  /\ \A n \in DOMAIN active :
       active[n] \in DOMAIN polled =>
         /\ polled[active[n]] = t0
         /\ pc \in {"bid", "ask", "retire", "aborted"}
  /\ pc \in {"telemetry", "done"} =>
       /\ FinishedIds = DOMAIN polled
       /\ Range(active) \cup DOMAIN polled = 0..(nagents - 1)

\* a later tick's bid phase runs with one agent finished before and one still active
C6_Witness ==
  /\ pc = "bid" /\ t0 >= 1 /\ i = 1 /\ Len(active) >= 1
  /\ \E n \in DOMAIN finished : finished[n].t = t0 - 1 /\ finished[n].id \notin Range(active)
  /\ \E n \in DOMAIN active : active[n] \notin DOMAIN polled /\ active[n] \notin FinishedIds

\* C7: the status callback projects the ledger entry: out_of_limits to
\* Unavailable; used to Owned for the owner and Unavailable for the others;
\* onsale to Unavailable for the owner and Available with min_value for the
\* others; highest_bidder and highest_bid play no part.
C7_StatusProjection ==
  call.op = "status" =>
    LET st == Entry(data, <<call.s, call.t>>)
    IN /\ call.pre = st
       /\ call.pub =
            CASE st.kind = "out_of_limits" -> unavailable
              [] st.kind = "used" /\ st.owner = call.id -> owned
              [] st.kind = "used" /\ st.owner # call.id -> unavailable
              [] st.kind = "onsale" /\ st.owner = call.id -> unavailable
              [] st.kind = "onsale" /\ st.owner # call.id -> available(st.min_value)

\* an agent asked for the status of a permit it has listed itself
C7_Witness ==
  /\ call.op = "status" /\ call.pre.kind = "onsale" /\ call.pre.owner = call.id
  /\ call.pub = unavailable

\* the state in which the bid phase of a tick starts
BidPhaseStart == pc = "bid" /\ i = 1 /\ call = no_call /\ subm = <<>>

AskKey(a) == <<a[1], a[2]>>

\* what every agent is shown for the key of ask a
ShownAsListed(a) ==
  \A id \in 0..(nagents - 1) :
    public_access(id, Entry(data, AskKey(a)))
      = IF id = a[3] THEN unavailable ELSE available(a[4])

\* C8 as stated: every ask that returned true in the tick before is shown at
\* the start of the bid phase as Available with its reserve to the other
\* agents and as Unavailable to the asker.
C8_AskVisibleNextTick ==
  (BidPhaseStart /\ listed # <<>>) =>
    \A n \in DOMAIN listed : listed[n][2] >= t0 /\ ShownAsListed(listed[n])

\* C8 amended: so is every ask whose key is still addressable and that was
\* the last one recorded for its key in the tick before.
C8_LastAskVisibleNextTick ==
  (BidPhaseStart /\ listed # <<>>) =>
    \A n \in DOMAIN listed :
      (/\ listed[n][2] >= t0
       /\ \A m \in DOMAIN listed : m > n => AskKey(listed[m]) # AskKey(listed[n]))
      => ShownAsListed(listed[n])

\* a key asked twice with different reserves is shown with the second one
C8_Witness ==
  /\ BidPhaseStart /\ Len(listed) = 2 /\ nagents >= 2
  /\ AskKey(listed[1]) = AskKey(listed[2]) /\ listed[1][4] # listed[2][4]
  /\ listed[2][2] >= t0
  /\ Entry(data, AskKey(listed[2])) = onsale(listed[2][3], listed[2][4], no_owner, 0)

\* a step in which an agent's callback of kind op returns
CallStep(op) == ncalls' = ncalls + 1 /\ call'.op = op

\* C9: the ask callback returns true if and only if the time is not past and
\* the entry is used with the asker as owner; it records the ask exactly then.
C9_AskStep ==
  CallStep("ask") =>
    LET c == call'
        ok == /\ c.t >= t0
              /\ Entry(data, <<c.s, c.t>>).kind = "used"
              /\ Entry(data, <<c.s, c.t>>).owner = c.id
    IN /\ pc = "ask" /\ c.id = active[i]
       /\ c.ret <=> ok
       /\ asks' = IF ok THEN Append(asks, <<c.s, c.t, c.id, c.v>>) ELSE asks

C9_AskTrueIffOwner == [][C9_AskStep]_vars

\* an agent's ask on a permit used by another agent was refused, after the
\* owner's ask had been recorded
C9_Witness ==
  /\ call.op = "ask" /\ ~call.ret /\ call.t >= t0
  /\ call.pre.kind = "used" /\ call.pre.owner # call.id
  /\ Len(asks) = 1 /\ asks[1][3] = call.pre.owner

Stored(d, k) == (k[2] - t0 + 1) \in DOMAIN d /\ k \in DOMAIN d[k[2] - t0 + 1]
NeverTraded(d, k) == Stored(d, k) => d[k[2] - t0 + 1][k] = default_status

\* C10: with a window W, a bid or ask beyond t0 + W returns false and changes
\* nothing; a bid above 0 on a never-traded key within the window returns true
\* and stands; with W = 0 only t' = t0 returns true.
C10_WindowStep ==
  ((CallStep("bid") \/ CallStep("ask")) /\ opts.time_window # <<>>) =>
    LET c == call'
        W == opts.time_window[1]
        k == <<c.s, c.t>>
    IN /\ c.t > t0 + W => (~c.ret /\ data' = data /\ bids' = bids /\ asks' = asks)
       /\ (W = 0 /\ c.ret) => c.t = t0
       /\ (c.op = "bid" /\ c.t >= t0 /\ c.t <= t0 + W /\ c.v > 0 /\ NeverTraded(data, k)) =>
            (c.ret /\ Entry(data', k) = onsale(no_owner, 0, c.id, c.v))

C10_Window == [][C10_WindowStep]_vars

\* with W = 0, a bid on a never-traded key of time 1 stands once the clock is at 1
C10_Witness ==
  /\ opts.time_window = <<0>> /\ t0 = 1
  /\ call.op = "bid" /\ call.t = 1 /\ call.ret /\ call.v > 0
  /\ call.pre = default_status
  /\ Entry(data, <<call.s, call.t>>) = onsale(no_owner, 0, call.id, call.v)

\* a position at which a callback can be called: by the telemetry, or by the
\* agent whose turn it is
InCallbackTurn == pc = "telemetry" \/ (pc \in {"bid", "ask"} /\ i <= Len(active))

\* C11: a ledger lookup never fails: whatever key the telemetry view or an
\* agent's callback names, a key of a past time included, the call returns and
\* the process does not end abnormally.
C11_LookupStep == InCallbackTurn => pc' # "aborted"

C11_LookupNeverFails == [][C11_LookupStep]_vars

Threshold == opts.stop_criteria.kind = "time_threshold"
Running == pc \notin {"done", "aborted"}

\* C12: the stop criterion is evaluated only after the clock advance, so a
\* run that ends has run at least one tick; with time_threshold(T) the run
\* goes on while t0 <= T and ends with t0 = T + 1, whatever the agents did;
\* with no_agents it ends exactly when the active list left by a tick is
\* empty, so when every agent created at tick 0 was put in to_finished at
\* tick 0 the run ends with t0 = 1 and each of them has had on_finished.
C12_StopAfterAdvance ==
  /\ pc = "done" => t0 >= 1
  /\ Threshold =>
       /\ pc = "done" => t0 = opts.stop_criteria.t + 1
       /\ Running => t0 <= opts.stop_criteria.t
  /\ ~Threshold =>
       /\ pc = "done" => active = <<>>
       /\ (pc = "telemetry" /\ t0 >= 1) => active # <<>>
       /\ (pc \in {"telemetry", "done"} /\ t0 = 1 /\ Len(to_finished) = nagents) =>
            /\ pc = "done"
            /\ finished = [k \in 1..nagents |-> [id |-> to_finished[k], t |-> 0]]
            /\ Range(to_finished) = 0..(nagents - 1)

\* with time_threshold(1) the run has ended after two ticks with agents still active
C12_Witness ==
  /\ pc = "done" /\ Threshold /\ opts.stop_criteria.t = 1 /\ t0 = 2
  /\ Len(active) >= 1 /\ ncalls >= 1

\* the statuses the ledger stores
StoredEntries == UNION {Range(data[n]) : n \in DOMAIN data}

\* C13: every onsale entry of the ledger with a highest_bidder has
\* highest_bid >= min_value, and every onsale entry without one has
\* highest_bid = 0.
C13_OnsaleBidBounds ==
  \A e \in StoredEntries :
    e.kind = "onsale" =>
      /\ e.highest_bidder # no_owner => e.highest_bid >= e.min_value
      /\ e.highest_bidder = no_owner => e.highest_bid = 0

\* a permit listed with a reserve above 0 holds a bid of another agent
C13_Witness ==
  \E e \in StoredEntries :
    /\ e.kind = "onsale" /\ e.owner # no_owner /\ e.min_value >= 1
    /\ e.highest_bidder \notin {no_owner, e.owner} /\ e.highest_bid > e.min_value

\* the bucket at offset n of d holds only keys of time t + n, offsets from 0
Aligned(d, t) == \A n \in DOMAIN d : \A k \in DOMAIN d[n] : k[2] = t + n - 1

\* C14: after every step the bucket at offset i of the ledger holds only keys
\* of time t0 + i, so no entry of a time below t0 is stored; a bid or an ask
\* on a key of a time below t0 returns false and writes nothing.
C14_PastStep ==
  /\ Aligned(data', t0')
  /\ ((CallStep("bid") \/ CallStep("ask")) /\ call'.t < t0) =>
       (~call'.ret /\ data' = data /\ bids' = bids /\ asks' = asks)

C14_PastImmutable == [][C14_PastStep]_vars

\* at tick 1 a bid on a key of time 0 was refused, while the front bucket
\* holds a permit of time 1 bought at tick 0
C14_Witness ==
  /\ t0 = 1 /\ call.op = "bid" /\ call.t = 0 /\ ~call.ret
  /\ Len(data) >= 1 /\ <<"r", 1>> \in DOMAIN data[1]
  /\ data[1][<<"r", 1>>].kind = "used"

\* the keys a lookup can name at the current tick
Addressable == {k \in Keys : k[2] >= t0}

AskedKeys == {AskKey(asks[n]) : n \in DOMAIN asks}

\* C15: each phase writes only its own kind of transition.  While the agents
\* bid, no entry changes its kind, its owner or its min_value, a used entry
\* does not change at all, a bid changes no key but its own and a rejected
\* bid changes none; a settlement step changes only onsale entries of keys in
\* bids, to used; while the agents ask nothing changes, and the application
\* of the asks changes only used entries of keys in asks, to onsale.
C15_PhaseStep ==
  t0' = t0 =>
    \A k \in Addressable :
      LET e == Entry(data, k)
          f == Entry(data', k)
      IN /\ (pc = "bid" /\ i <= Len(active)) =>
              /\ f.kind = e.kind
              /\ e.kind = "onsale" => (f.owner = e.owner /\ f.min_value = e.min_value)
              /\ e.kind # "onsale" => f = e
              /\ f # e => /\ CallStep("bid") /\ k = <<call'.s, call'.t>>
                          /\ call'.v > e.min_value /\ call'.v > e.highest_bid
                          /\ f = [e EXCEPT !.highest_bidder = call'.id, !.highest_bid = call'.v]
         /\ (AuctionOver /\ f # e) =>
              (e.kind = "onsale" /\ f.kind = "used" /\ k \in Range(bids))
         /\ (pc = "ask" /\ i <= Len(active)) => f = e
         /\ (pc = "ask" /\ f # e) =>
              (e.kind = "used" /\ f.kind = "onsale" /\ k \in AskedKeys)

C16_SelfTradeStep ==
  /\ (/\ CallStep("bid") /\ call'.t >= t0
      /\ call'.pre.kind = "onsale" /\ call'.pre.owner = call'.id
      /\ call'.v > call'.pre.min_value /\ call'.v > call'.pre.highest_bid) =>
       /\ call'.ret
       /\ Entry(data', <<call'.s, call'.t>>)
            = [call'.pre EXCEPT !.highest_bidder = call'.id, !.highest_bid = call'.v]
       /\ <<call'.s, call'.t>> \in Range(bids')
  /\ (/\ AuctionOver /\ j <= Len(bids) /\ j' = j + 1
      /\ Entry(data, bids[j]).kind = "onsale"
      /\ Entry(data, bids[j]).owner = Entry(data, bids[j]).highest_bidder) =>
       LET k == bids[j]
           A == Entry(data, k).owner
           p == Entry(data, k).highest_bid
       IN /\ trades' = Append(trades, [tick |-> t0, seller |-> A, buyer |-> A,
                                       s |-> k[1], t |-> k[2], price |-> p])
          /\ Cardinality({n \in DOMAIN trades' : TradeKey(trades'[n]) = k}) = 1
          /\ notes' = notes \o <<[ev |-> "on_bought", id |-> A, s |-> k[1], t |-> k[2], v |-> p],
                                 [ev |-> "on_sold", id |-> A, s |-> k[1], t |-> k[2], v |-> p]>>
          /\ Entry(data', k) = used(A)

C16_SelfTrade == [][C16_SelfTradeStep]_vars

\* an agent has bought back the permit it listed, against a lower bid of another agent
C16_Witness ==
  /\ SettlementOver
  /\ \E n \in DOMAIN trades :
       /\ trades[n].seller = trades[n].buyer /\ trades[n].seller # no_owner
       /\ Entry(data, TradeKey(trades[n])) = used(trades[n].buyer)
       /\ \E m \in SubmOn(TradeKey(trades[n])) :
            subm[m].id # trades[n].buyer /\ subm[m].v < trades[n].price
       /\ \E x, y \in DOMAIN notes :
            /\ x < y /\ notes[x].ev = "on_bought" /\ notes[y].ev = "on_sold"
            /\ notes[x].id = trades[n].buyer /\ notes[y].id = trades[n].buyer

\* C17 as stated: with a time window W the ledger never holds more than W
\* per-tick maps.
C17_AtMostWMaps == opts.time_window # <<>> => Len(data) <= opts.time_window[1]

\* C17 amended: with a time window W the ledger never holds more than W + 1
\* per-tick maps, one for each of the times t0 .. t0 + W.
C17_AtMostWPlusOneMaps == opts.time_window # <<>> => Len(data) <= opts.time_window[1] + 1

\* a lookup of the last time of the window has extended the ledger to W + 1 maps
C17_Witness ==
  /\ opts.time_window # <<>> /\ Len(data) = opts.time_window[1] + 1
  /\ call.op \in {"bid", "status", "view"} /\ call.t = t0 + opts.time_window[1]
  /\ <<call.s, call.t>> \in DOMAIN data[Len(data)]

\* the last ask recorded in asks for key k
LastAsk(k) ==
  asks[CHOOSE n \in DOMAIN asks :
         AskKey(asks[n]) = k /\ \A m \in DOMAIN asks : AskKey(asks[m]) = k => m <= n]

\* C18: asks are applied only after the ask phase: while it runs every asked
\* key is still used by its asker, who is shown Owned, and every further ask
\* of the asker on it returns true; once the asks are applied every asked key
\* is onsale with owner = the asker, highest_bidder = no_owner, highest_bid = 0
\* and min_value = the value of the last ask recorded for the key.
C18_AsksDeferred ==
  /\ pc = "ask" =>
       /\ \A n \in DOMAIN asks :
            /\ Entry(data, AskKey(asks[n])) = used(asks[n][3])
            /\ public_access(asks[n][3], Entry(data, AskKey(asks[n]))) = owned
       /\ (call.op = "ask" /\ \E n \in DOMAIN asks :
             AskKey(asks[n]) = <<call.s, call.t>> /\ asks[n][3] = call.id) => call.ret
  /\ pc = "retire" =>
       \A k \in AskedKeys :
         Entry(data, k) = onsale(LastAsk(k)[3], LastAsk(k)[4], no_owner, 0)

\* the buyer of a permit settled in this tick asked twice for it, with two
\* values, and the permit is listed with the second
C18_Witness ==
  /\ pc = "retire" /\ Len(asks) = 2
  /\ AskKey(asks[1]) = AskKey(asks[2]) /\ asks[1][4] # asks[2][4]
  /\ \E n \in DOMAIN trades :
       TradeKey(trades[n]) = AskKey(asks[1]) /\ trades[n].buyer = asks[1][3]
  /\ Entry(data, AskKey(asks[2])) = onsale(asks[2][3], asks[2][4], no_owner, 0)

\* the stored keys whose onsale entry holds a bid
StandingBids ==
  UNION {{k \in DOMAIN data[n] :
            data[n][k].kind = "onsale" /\ data[n][k].highest_bidder # no_owner}
         : n \in DOMAIN data}

\* C19: no bid survives a tick: the keys whose entry holds a bid are exactly
\* the keys of bids still to be settled, each recorded in bids once, so that
\* outside the bid and settlement phases, and when settlement is over, no
\* onsale entry has a highest_bidder.
C19_NoBidSurvives ==
  /\ pc = "bid" =>
       /\ \A m, n \in DOMAIN bids : bids[m] = bids[n] => m = n
       /\ StandingBids = {bids[n] : n \in j..Len(bids)}
  /\ pc \in {"telemetry", "ask", "retire", "done"} => StandingBids = {}

\* settlement is over for a key on which two agents had accepted bids, and
\* the ledger holds an onsale entry, none with a bid
C19_Witness ==
  /\ SettlementOver /\ StandingBids = {}
  /\ \E m, n \in DOMAIN subm :
       /\ m < n /\ subm[m].k = subm[n].k /\ subm[m].id # subm[n].id
       /\ subm[m].acc /\ subm[n].acc
  /\ \E e \in StoredEntries : e.kind = "onsale"

\* C20: the clock advance is always well defined: when the front bucket is
\* about to be dropped the ledger holds at least one bucket, also in a tick
\* in which no callback looked up a key.
C20_PopFrontDefined == pc = "retire" => Len(data) >= 1

====
